---- MODULE Spec2Model ----
(***************************************************************************)
(* A model of the three tools of noccstacksv2/tools/custom_tool.py:        *)
(*   ClarityDocScraper._run, SmartContractGenerator._run and               *)
(*   TestGenerator._run (with its helpers),                                *)
(* and of Noccstacksv2.before_kickoff_function of noccstacksv2/crew.py.    *)
(*                                                                         *)
(* Python strings are TLA+ strings (Len, \o, SubSeq, Head and Tail work on *)
(* them in TLC), so formatting, joining, lower-casing and JSON encoding    *)
(* are computed character by character.  A Python value whose type the     *)
(* code tests or that may be of several types is tagged by the one field   *)
(* of a record: [str |-> s], [dict |-> d], [none |-> TRUE].  A dict is a   *)
(* function from its keys.                                                 *)
(***************************************************************************)
EXTENDS Integers, Sequences, FiniteSets, TLC

VARIABLES
    tool,            \* which tool's _run is being executed
    pc,              \* position in that _run
    result,          \* the value _run returned (None until it returns)
    exception,       \* the exception that escaped _run (None if none)
    \* ---- ClarityDocScraper._run
    topic,           \* argument
    network,         \* environment: "down" = every requests.get raises
    urls,            \* local
    url_i,           \* position of the for loop over urls
    results,         \* local
    requested,       \* environment: the URLs requests.get was called with
    responses,       \* environment: the pages served with status 200
    \* ---- SmartContractGenerator._run
    contract_name,   \* argument
    features,        \* argument
    data_vars,       \* argument
    maps,            \* argument
    functions,       \* argument
    error_codes,     \* argument
    contract_parts,  \* local
    calls,           \* how many calls of _run were started
    first,           \* the features and the outcome of the first call
    \* ---- TestGenerator._run (contract_name, functions, urls, url_i, network,
    \*      requested and responses are as above)
    contract_description,  \* argument
    test_scenarios,  \* argument
    patterns,        \* local of _get_latest_test_patterns, then of _run
    test_parts,      \* local
    func_i,          \* position of the for loop over functions
    assertions,      \* local: what _generate_test_assertions returned last
    \* ---- Noccstacksv2.before_kickoff_function
    default_inputs,  \* the dict the class attribute refers to
    crew_inputs,     \* argument `inputs` of the last call
    merged_inputs,   \* the dict the last call returned (None before any call)
    shared,          \* whether that dict is the very object default_inputs is
    crew_calls       \* how many calls were made

scraperVars == <<topic, network, urls, url_i, results, requested, responses>>
genArgs == <<contract_name, data_vars, maps, functions, error_codes>>
genVars == <<genArgs, features, contract_parts, calls, first>>
testArgs == <<contract_description, test_scenarios>>
testVars == <<testArgs, patterns, test_parts, func_i, assertions>>
crewVars == <<default_inputs, crew_inputs, merged_inputs, shared, crew_calls>>
vars == <<tool, pc, result, exception, scraperVars, genVars, testVars, crewVars>>

(***************************************************************************)
(* Python values                                                           *)
(***************************************************************************)
None == [none |-> TRUE]
Str(s) == [str |-> s]
Dict(d) == [dict |-> d]
IsStr(v) == DOMAIN v = {"str"}
IsDict(v) == DOMAIN v = {"dict"}

List(l) == [list |-> l]
IsList(v) == DOMAIN v = {"list"}
\* d.get(k, default)
Get(d, k, default) == IF k \in DOMAIN d THEN d[k] ELSE default
\* the truth value of an optional list (`if data_vars:`): None and [] are
\* false; IsGivenList is the test `is not None`, which [] passes
IsGivenList(v) == IsList(v)
Truthy(v) == IsList(v) /\ v.list # <<>>

(***************************************************************************)
(* Python string operations                                                *)
(***************************************************************************)
Char(s, i) == SubSeq(s, i, i)

LowerChar(c) ==
    CASE c = "A" -> "a" [] c = "B" -> "b" [] c = "C" -> "c" [] c = "D" -> "d"
      [] c = "E" -> "e" [] c = "F" -> "f" [] c = "G" -> "g" [] c = "H" -> "h"
      [] c = "I" -> "i" [] c = "J" -> "j" [] c = "K" -> "k" [] c = "L" -> "l"
      [] c = "M" -> "m" [] c = "N" -> "n" [] c = "O" -> "o" [] c = "P" -> "p"
      [] c = "Q" -> "q" [] c = "R" -> "r" [] c = "S" -> "s" [] c = "T" -> "t"
      [] c = "U" -> "u" [] c = "V" -> "v" [] c = "W" -> "w" [] c = "X" -> "x"
      [] c = "Y" -> "y" [] c = "Z" -> "z" [] OTHER -> c

\* the concatenation of the strings strs[lo..hi]
RECURSIVE Cat(_, _, _)
Cat(strs, lo, hi) ==
    IF lo > hi THEN ""
    ELSE IF lo = hi THEN strs[lo]
    ELSE LET mid == (lo + hi) \div 2 IN Cat(strs, lo, mid) \o Cat(strs, mid + 1, hi)

\* s.lower()
Lower(s) == Cat([i \in 1..Len(s) |-> LowerChar(Char(s, i))], 1, Len(s))

\* s.startswith(prefix)
StartsWith(s, prefix) ==
    Len(s) >= Len(prefix) /\ SubSeq(s, 1, Len(prefix)) = prefix

\* sub in s
Contains(s, sub) ==
    \E i \in 1..(Len(s) - Len(sub) + 1) : SubSeq(s, i, i + Len(sub) - 1) = sub

\* any(k in s for k in keys)
ContainsAny(s, keys) == \E k \in keys : Contains(s, k)

\* s.find(sub) + 1: the first position of sub in s, 0 if there is none
Find(s, sub) ==
    LET at == {i \in 1..(Len(s) - Len(sub) + 1) : SubSeq(s, i, i + Len(sub) - 1) = sub}
    IN IF at = {} THEN 0 ELSE CHOOSE i \in at : \A j \in at : i <= j

\* s.replace(old, new), old not empty
RECURSIVE Replace(_, _, _)
Replace(s, old, new) ==
    LET p == Find(s, old) IN
    IF p = 0 THEN s
    ELSE SubSeq(s, 1, p - 1) \o new
             \o Replace(SubSeq(s, p + Len(old), Len(s)), old, new)

\* sep.join(parts)
Join(sep, parts) ==
    Cat([i \in 1..Len(parts) |-> IF i = 1 THEN parts[i] ELSE sep \o parts[i]],
        1, Len(parts))

\* the pieces of s between the characters that are in seps
SplitAt(s, seps) ==
    LET at == SelectSeq([i \in 1..Len(s) |-> i], LAMBDA i : Char(s, i) \in seps)
    IN [k \in 1..(Len(at) + 1) |->
           SubSeq(s, IF k = 1 THEN 1 ELSE at[k - 1] + 1,
                     IF k = Len(at) + 1 THEN Len(s) ELSE at[k] - 1)]

\* text.split("\n")
Lines(text) == SplitAt(text, {"\n"})

\* s.split(): the words between runs of whitespace
Words(s) == SelectSeq(SplitAt(s, {" ", "\n", "\t"}), LAMBDA w : w # "")

\* f"{i:02d}" for the chapter numbers
Digit(d) == CASE d = 0 -> "0" [] d = 1 -> "1" [] d = 2 -> "2" [] d = 3 -> "3"
              [] d = 4 -> "4" [] d = 5 -> "5" [] d = 6 -> "6" [] d = 7 -> "7"
              [] d = 8 -> "8" [] d = 9 -> "9"
Format02d(i) == Digit((i \div 10) % 10) \o Digit(i % 10)

\* the concatenation of a sequence of sequences
RECURSIVE Flatten(_)
Flatten(ss) == IF ss = <<>> THEN <<>> ELSE Head(ss) \o Flatten(Tail(ss))

(***************************************************************************)
(* json.dumps                                                              *)
(***************************************************************************)
JsonChar(c) == CASE c = "\"" -> "\\\"" [] c = "\\" -> "\\\\" [] c = "\n" -> "\\n"
                 [] OTHER -> c
JsonEscape(s) == Cat([i \in 1..Len(s) |-> JsonChar(Char(s, i))], 1, Len(s))
JsonString(s) == "\"" \o JsonEscape(s) \o "\""

\* one {type, content} record at nesting level 1 of json.dumps(..., indent=2)
JsonRecord(r) ==
    "  {\n    \"type\": " \o JsonString(r.type) \o ",\n    \"content\": "
        \o JsonString(r.content) \o "\n  }"

\* json.dumps(results, indent=2)
JsonDumpsList(rs) ==
    IF rs = <<>> THEN "[]"
    ELSE "[\n" \o Join(",\n", [k \in 1..Len(rs) |-> JsonRecord(rs[k])]) \o "\n]"

\* json.dumps({"error": str(e)})
JsonDumpsError(msg) == "{\"error\": " \o JsonString(msg) \o "}"

(***************************************************************************)
(* ClarityDocScraper._run                                                  *)
(***************************************************************************)
NumChapters == 12
StaticUrls == << "https://docs.stacks.co/docs/clarity/",
                 "https://docs.stacks.co/docs/write-smart-contracts/" >>

ChapterUrl(i, t) ==
    "https://book.clarity-lang.org/ch" \o Format02d(i) \o "-"
        \o Replace(Lower(t), " ", "-") \o ".html"

\* the list built by lines 24-31
BuildUrls(t) == [i \in 1..NumChapters |-> ChapterUrl(i, t)] \o StaticUrls

\* the records one parsed page adds to results (lines 41-58); a page is the
\* stripped texts of its pre/code blocks and of its content/explanation elements
IsExample(t, code) == ContainsAny(code, {"define-", "contract-call?", Lower(t)})
IsExplanation(t, text) == Contains(Lower(text), Lower(t))
MkExample(code) == [type |-> "example", content |-> code]
MkExplanation(text) == [type |-> "explanation", content |-> text]
\* lines 42-48
RECURSIVE Examples(_, _)
Examples(t, blocks) ==
    IF blocks = <<>> THEN <<>>
    ELSE (IF IsExample(t, Head(blocks)) THEN <<MkExample(Head(blocks))>> ELSE <<>>)
         \o Examples(t, Tail(blocks))
\* lines 52-58
RECURSIVE Explanations(_, _)
Explanations(t, exps) ==
    IF exps = <<>> THEN <<>>
    ELSE (IF IsExplanation(t, Head(exps)) THEN <<MkExplanation(Head(exps))>>
          ELSE <<>>)
         \o Explanations(t, Tail(exps))
PageRecords(t, page) == Examples(t, page.code) \o Explanations(t, page.exp)

\* what the handler of a failed request does: `except: continue` (lines 59-60).
\* FetchErrorEscapes is the loop without that handler: the error reaches the
\* outer handler of lines 63-64.
FetchErrorEscapes(i) ==
    [pc |-> "done", url_i |-> i,
     result |-> Str(JsonDumpsError("HTTPSConnectionPool: Max retries exceeded"))]
HandleFetchError(i) == [pc |-> "fetch", url_i |-> i + 1, result |-> None]

\* the loop position after a response whose status is not 200 (line 37 is
\* false and the loop goes on); SkipStops is a loop that such a response ends
SkipStops(i) == Len(StaticUrls) + NumChapters + 1
AfterNon200(i) == i + 1

\* ---- bounds and inputs of the scraper
MaxOK == 2
Topics == {Str("Maps"), Str("data vars"), None}
Pages == {
    [code |-> <<"(define-map balances principal uint)">>, exp |-> <<>>],
    [code |-> <<"clarinet new", "(print \"maps\")">>,
     exp |-> <<"Maps store data.", "Data Vars hold one value">>],
    [code |-> <<>>, exp |-> <<"Nothing here">>] }

ScraperIdle ==
    /\ topic = None /\ network = "up" /\ urls = <<>> /\ url_i = 1
    /\ results = <<>> /\ requested = <<>> /\ responses = <<>>

GenIdle ==
    /\ contract_name = "" /\ features = <<>> /\ data_vars = None /\ maps = None
    /\ functions = None /\ error_codes = None /\ contract_parts = <<>>
    /\ calls = 0 /\ first = None

\* crew.py lines 14-17
ClassDefaultInputs ==
    [project_name |-> "Newsletter",
     project_description |-> "A decentralized newsletter platform built on Stacks blockchain that allows users to subscribe, publish content, and manage subscriptions. Features include subscription management, content publishing, payment handling, and governance features."]

CrewIdle ==
    /\ default_inputs = ClassDefaultInputs /\ crew_inputs = None
    /\ merged_inputs = None /\ shared = FALSE /\ crew_calls = 0

TestIdle ==
    /\ contract_description = "" /\ test_scenarios = None /\ patterns = None
    /\ test_parts = <<>> /\ func_i = 1 /\ assertions = <<>>

InitScraper ==
    /\ tool = "ClarityDocScraper"
    /\ pc = "start"
    /\ result = None
    /\ exception = None
    /\ topic \in Topics
    /\ network \in {"up", "down"}
    /\ urls = <<>>
    /\ url_i = 1
    /\ results = <<>>
    /\ requested = <<>>
    /\ responses = <<>>
    /\ GenIdle
    /\ TestIdle
    /\ CrewIdle

\* lines 24-33; topic.lower() raises AttributeError when topic is no string,
\* which the outer handler turns into the JSON error object (lines 63-64)
ScraperBuildUrls ==
    /\ tool = "ClarityDocScraper" /\ pc = "start"
    /\ IF IsStr(topic)
       THEN /\ urls' = BuildUrls(topic.str)
            /\ pc' = "fetch"
            /\ result' = result
       ELSE /\ urls' = urls
            /\ pc' = "done"
            /\ result' = Str(JsonDumpsError(
                   "'NoneType' object has no attribute 'lower'"))
    /\ UNCHANGED <<genVars, crewVars, testVars, tool, exception, topic, network, url_i, results, requested,
                   responses>>

\* line 36 raises (connection error, timeout, ...): lines 59-60
ScraperGetRaises ==
    /\ tool = "ClarityDocScraper" /\ pc = "fetch" /\ url_i <= Len(urls)
    /\ requested' = Append(requested, urls[url_i])
    /\ LET h == HandleFetchError(url_i) IN
         /\ pc' = h.pc
         /\ url_i' = h.url_i
         /\ result' = h.result
    /\ UNCHANGED <<genVars, crewVars, testVars, tool, exception, topic, network, urls, results, responses>>

\* line 36 returns a response whose status_code is not 200: line 37 is false
ScraperGetNon200 ==
    /\ tool = "ClarityDocScraper" /\ pc = "fetch" /\ url_i <= Len(urls)
    /\ network = "up"
    /\ requested' = Append(requested, urls[url_i])
    /\ url_i' = AfterNon200(url_i)
    /\ UNCHANGED <<genVars, crewVars, testVars, tool, pc, result, exception, topic, network, urls, results,
                   responses>>

\* line 36 returns status 200 and the page is parsed: lines 38-58
ScraperGetOK ==
    /\ tool = "ClarityDocScraper" /\ pc = "fetch" /\ url_i <= Len(urls)
    /\ network = "up"
    /\ Len(responses) < MaxOK
    /\ \E page \in Pages :
         /\ responses' = Append(responses, [url |-> urls[url_i], page |-> page])
         /\ results' = results \o PageRecords(topic.str, page)
    /\ requested' = Append(requested, urls[url_i])
    /\ url_i' = url_i + 1
    /\ UNCHANGED <<genVars, crewVars, testVars, tool, pc, result, exception, topic, network, urls>>

\* line 62
ScraperReturn ==
    /\ tool = "ClarityDocScraper" /\ pc = "fetch" /\ url_i > Len(urls)
    /\ result' = Str(JsonDumpsList(results))
    /\ pc' = "done"
    /\ UNCHANGED <<genVars, crewVars, testVars, tool, exception, scraperVars>>

NextScraper ==
    \/ ScraperBuildUrls
    \/ ScraperGetRaises
    \/ ScraperGetNon200
    \/ ScraperGetOK
    \/ ScraperReturn

SpecScraper == InitScraper /\ [][NextScraper]_vars

(***************************************************************************)
(* Properties of ClarityDocScraper._run                                    *)
(***************************************************************************)
NumUrls == NumChapters + Len(StaticUrls)

\* the index in urls of the k-th page served with status 200
RECURSIVE IndexOf(_, _, _)
IndexOf(seq, x, from) ==
    IF from > Len(seq) THEN 0
    ELSE IF seq[from] = x THEN from ELSE IndexOf(seq, x, from + 1)

\* C5: when every requests.get raises, _run called with a topic string raises
\* nothing and returns the text of the empty JSON array, never the JSON error
\* object.
C5_AllRequestsFail ==
    (tool = "ClarityDocScraper" /\ network = "down" /\ IsStr(topic)) =>
        /\ exception = None
        /\ pc = "done" => /\ result = Str("[]")
                          /\ Lines(result.str) = <<"[]">>
                          /\ ~Contains(result.str, "error")

C5_Witness ==
    /\ tool = "ClarityDocScraper" /\ network = "down" /\ IsStr(topic)
    /\ pc = "done"
    /\ Len(requested) = NumUrls

\* C9: whatever each URL answers, requests.get is called once for each of the
\* 14 candidate URLs (the 12 chapter URLs, then the 2 static ones), one after
\* the other in list order; a URL that raised or answered a status other than
\* 200 adds no record and the loop goes on to the next URL; the array returned
\* holds the records of the pages served with status 200, in URL order.
C9_SequentialFetches ==
    (tool = "ClarityDocScraper" /\ IsStr(topic) /\ pc # "start") =>
        /\ Len(urls) = 14
        /\ SubSeq(urls, 13, 14) = StaticUrls
        /\ \A i \in 1..12 : \A j \in 1..14 :
               /\ StartsWith(urls[i], "https://book.clarity-lang.org/ch")
               /\ i # j => urls[i] # urls[j]
        \* one fetch per URL, in list order, no retry
        /\ requested = SubSeq(urls, 1, url_i - 1)
        \* only the pages served add records, and in URL order
        /\ \A k \in 1..Len(responses) :
               /\ IndexOf(urls, responses[k].url, 1) \in 1..(url_i - 1)
               /\ k > 1 => IndexOf(urls, responses[k - 1].url, 1)
                             < IndexOf(urls, responses[k].url, 1)
        /\ results = Flatten([k \in 1..Len(responses) |->
                                 PageRecords(topic.str, responses[k].page)])
        /\ pc = "done" => /\ requested = urls
                          /\ result = Str(JsonDumpsList(results))

C9_Witness ==
    /\ tool = "ClarityDocScraper" /\ pc = "done" /\ IsStr(topic)
    /\ network = "up"
    /\ Len(requested) = 14
    /\ Len(responses) = 2
    /\ responses[1].url = urls[2]
    /\ responses[2].url = urls[14]
    /\ Len(results) = 3

(***************************************************************************)
(* SmartContractGenerator._run                                             *)
(***************************************************************************)
\* lines 92-96; features is in scope and never read.  InitialPartsWithFeatures
\* is a header that would list the features.
InitialPartsWithFeatures(name, feats) ==
    << ";; " \o name,
       ";; Generated smart contract based on Clarity documentation patterns",
       ";; Features: " \o Join(", ", feats),
       "" >>
InitialParts(name, feats) ==
    << ";; " \o name,
       ";; Generated smart contract based on Clarity documentation patterns",
       "" >>

\* ---- data vars, lines 99-105
DataVarOK(var) ==
    IsDict(var) /\ "name" \in DOMAIN var.dict /\ "type" \in DOMAIN var.dict
DataVarLine(var) ==
    "(define-data-var " \o var.dict["name"] \o " " \o var.dict["type"] \o " "
        \o Get(var.dict, "initial", "false") \o ")"
\* the loop of lines 101-104; DataVarLinesBreak is that loop with `break` for
\* `continue`
RECURSIVE DataVarLinesBreak(_)
DataVarLinesBreak(vs) ==
    IF vs = <<>> \/ ~DataVarOK(Head(vs)) THEN <<>>
    ELSE <<DataVarLine(Head(vs))>> \o DataVarLinesBreak(Tail(vs))
RECURSIVE DataVarLines(_)
DataVarLines(vs) ==
    IF vs = <<>> THEN <<>>
    ELSE (IF DataVarOK(Head(vs)) THEN <<DataVarLine(Head(vs))>> ELSE <<>>)
         \o DataVarLines(Tail(vs))
DataVarSection(dv) ==
    IF Truthy(dv) THEN <<";; Data vars">> \o DataVarLines(dv.list) \o <<"">>
    ELSE <<>>

\* ---- maps, lines 108-116
MapOK(map_def) == IsDict(map_def) /\ "name" \in DOMAIN map_def.dict
MapLine(map_def) ==
    LET d == map_def.dict
        key_type == Get(d, "key_type", Get(d, "key", "principal"))
        value_type == Get(d, "value_type", Get(d, "value", "bool"))
    IN "(define-map " \o d["name"] \o " " \o key_type \o " " \o value_type \o ")"
RECURSIVE MapLines(_)
MapLines(ms) ==
    IF ms = <<>> THEN <<>>
    ELSE (IF MapOK(Head(ms)) THEN <<MapLine(Head(ms))>> ELSE <<>>)
         \o MapLines(Tail(ms))
MapSection(m) ==
    IF Truthy(m) THEN <<";; Maps">> \o MapLines(m.list) \o <<"">> ELSE <<>>

\* ---- functions, lines 119-141
\* f"({param['name']} {param['type']})": subscripting a str with a str raises
\* TypeError, a missing key raises KeyError
ParamStr(param) ==
    IF ~IsDict(param) THEN [exc |-> Str("TypeError"), str |-> ""]
    ELSE IF "name" \notin DOMAIN param.dict \/ "type" \notin DOMAIN param.dict
    THEN [exc |-> Str("KeyError"), str |-> ""]
    ELSE [exc |-> None,
          str |-> "(" \o param.dict["name"] \o " " \o param.dict["type"] \o ")"]
\* the list comprehension of line 127 (and 129): the first element that raises
\* ends it
RECURSIVE ParamStrs(_)
ParamStrs(params) ==
    IF params = <<>> THEN [exc |-> None, strs |-> <<>>]
    ELSE LET h == ParamStr(Head(params)) IN
         IF h.exc # None THEN [exc |-> h.exc, strs |-> <<>>]
         ELSE LET t == ParamStrs(Tail(params)) IN
              [exc |-> t.exc, strs |-> <<h.str>> \o t.strs]
\* lines 126-131
ArgsStr(func) ==
    LET ps == IF "parameters" \in DOMAIN func.dict
              THEN ParamStrs(func.dict["parameters"])
              ELSE IF "args" \in DOMAIN func.dict
              THEN ParamStrs(func.dict["args"])
              ELSE [exc |-> None, strs |-> <<>>]
    IN [exc |-> ps.exc, str |-> Join(" ", ps.strs)]
FuncOK(func) == IsDict(func) /\ "name" \in DOMAIN func.dict
\* line 133
FuncType(func) ==
    IF Get(func.dict, "is_read_only", FALSE) THEN "define-read-only"
    ELSE "define-public"
\* lines 136-141
FuncBlock(func, args_str) ==
    << "(define-" \o FuncType(func) \o " (" \o func.dict["name"] \o " "
           \o args_str \o ")",
       "    " \o Get(func.dict, "body", "(ok true)"),
       ")",
       "" >>
\* the loop of lines 121-141: the parts appended, and the exception that ended
\* the loop if one did
RECURSIVE FunctionParts(_)
FunctionParts(fs) ==
    IF fs = <<>> THEN [exc |-> None, parts |-> <<>>]
    ELSE IF ~FuncOK(Head(fs)) THEN FunctionParts(Tail(fs))
    ELSE LET a == ArgsStr(Head(fs)) IN
         IF a.exc # None THEN [exc |-> a.exc, parts |-> <<>>]
         ELSE LET t == FunctionParts(Tail(fs)) IN
              [exc |-> t.exc, parts |-> FuncBlock(Head(fs), a.str) \o t.parts]
FunctionSection(f) ==
    IF Truthy(f)
    THEN LET r == FunctionParts(f.list) IN
         [exc |-> r.exc, parts |-> <<";; Functions">> \o r.parts]
    ELSE [exc |-> None, parts |-> <<>>]

\* ---- error codes, lines 144-152
ErrorOK(error) ==
    IsDict(error) /\ "name" \in DOMAIN error.dict /\ "code" \in DOMAIN error.dict
ErrorLines1(error) ==
    (IF "message" \in DOMAIN error.dict
     THEN <<";; " \o error.dict["message"]>> ELSE <<>>)
    \o <<"(define-constant " \o error.dict["name"] \o " (err u"
            \o error.dict["code"] \o "))">>
RECURSIVE ErrorLines(_)
ErrorLines(es) ==
    IF es = <<>> THEN <<>>
    ELSE (IF ErrorOK(Head(es)) THEN ErrorLines1(Head(es)) ELSE <<>>)
         \o ErrorLines(Tail(es))
ErrorSection(e) ==
    IF Truthy(e) THEN <<";; Error codes">> \o ErrorLines(e.list) \o <<"">>
    ELSE <<>>

\* ---- bounds and inputs of the generator
MaxDescriptors == 3
ContractNames == {"vault"}
FeatureLists == { <<"deposits">>, <<"deposits", "governance">> }
DataVarEntries == {
    Dict([name |-> "counter", type |-> "uint", initial |-> "u0"]),
    Dict([name |-> "paused", type |-> "bool"]),
    Dict([name |-> "owner"]),
    Dict([type |-> "uint"]),
    Str("total") }
MapEntries == {
    Dict([name |-> "balances", key_type |-> "principal", value_type |-> "uint"]),
    Dict([name |-> "flags", key |-> "uint"]),
    Dict([key_type |-> "uint", value_type |-> "bool"]),
    Str("balances") }
deposit == Dict([name |-> "deposit", is_read_only |-> FALSE, body |-> "(ok true)"])
FunctionEntries == {
    deposit,
    Dict([name |-> "get-balance", is_read_only |-> TRUE, body |-> "(ok u0)",
          parameters |-> <<Dict([name |-> "who", type |-> "principal"])>>]),
    Dict([name |-> "withdraw",
          args |-> <<Dict([name |-> "amount", type |-> "uint"]),
                     Dict([name |-> "to", type |-> "principal"])>>]),
    Dict([name |-> "transfer", parameters |-> <<Dict([name |-> "to"])>>]),
    Dict([name |-> "mint", args |-> <<Str("u1")>>]),
    Dict([body |-> "(ok true)"]),
    Str("deposit") }
ErrorEntries == {
    Dict([name |-> "ERR-NOT-OWNER", code |-> "100",
          message |-> "caller is not the owner"]),
    Dict([name |-> "ERR-PAUSED", code |-> "101"]),
    Dict([name |-> "ERR-UNKNOWN"]),
    Str("ERR") }

\* the values of an optional list argument of length n over entries S
OptList(S, n) ==
    IF n = 0 THEN {None, List(<<>>)} ELSE {List(l) : l \in [1..n -> S]}

InitGen ==
    /\ tool = "SmartContractGenerator"
    /\ pc = "start"
    /\ result = None
    /\ exception = None
    /\ contract_name \in ContractNames
    /\ features \in FeatureLists
    /\ \E a \in 0..MaxDescriptors : \E b \in 0..(MaxDescriptors - a) :
       \E c \in 0..(MaxDescriptors - a - b) :
       \E d \in 0..(MaxDescriptors - a - b - c) :
         /\ data_vars \in OptList(DataVarEntries, a)
         /\ maps \in OptList(MapEntries, b)
         /\ functions \in OptList(FunctionEntries, c)
         /\ error_codes \in OptList(ErrorEntries, d)
    /\ contract_parts = <<>>
    /\ calls = 1
    /\ first = None
    /\ ScraperIdle
    /\ TestIdle
    /\ CrewIdle

\* lines 92-96
GenStart ==
    /\ tool = "SmartContractGenerator" /\ pc = "start"
    /\ contract_parts' = InitialParts(contract_name, features)
    /\ pc' = "data_vars"
    /\ UNCHANGED <<crewVars, testVars, tool, result, exception, scraperVars, genArgs, features, calls,
                   first>>

\* lines 99-105
GenDataVars ==
    /\ tool = "SmartContractGenerator" /\ pc = "data_vars"
    /\ contract_parts' = contract_parts \o DataVarSection(data_vars)
    /\ pc' = "maps"
    /\ UNCHANGED <<crewVars, testVars, tool, result, exception, scraperVars, genArgs, features, calls,
                   first>>

\* lines 108-116
GenMaps ==
    /\ tool = "SmartContractGenerator" /\ pc = "maps"
    /\ contract_parts' = contract_parts \o MapSection(maps)
    /\ pc' = "functions"
    /\ UNCHANGED <<crewVars, testVars, tool, result, exception, scraperVars, genArgs, features, calls,
                   first>>

\* lines 119-141; an exception raised by line 127 or 129 is caught nowhere
GenFunctions ==
    /\ tool = "SmartContractGenerator" /\ pc = "functions"
    /\ LET r == FunctionSection(functions) IN
         /\ contract_parts' = contract_parts \o r.parts
         /\ exception' = r.exc
         /\ pc' = IF r.exc = None THEN "error_codes" ELSE "raised"
    /\ UNCHANGED <<crewVars, testVars, tool, result, scraperVars, genArgs, features, calls, first>>

\* lines 144-152
GenErrorCodes ==
    /\ tool = "SmartContractGenerator" /\ pc = "error_codes"
    /\ contract_parts' = contract_parts \o ErrorSection(error_codes)
    /\ pc' = "return"
    /\ UNCHANGED <<crewVars, testVars, tool, result, exception, scraperVars, genArgs, features, calls,
                   first>>

\* line 154
GenReturn ==
    /\ tool = "SmartContractGenerator" /\ pc = "return"
    /\ result' = Str(Join("\n", contract_parts))
    /\ pc' = "done"
    /\ UNCHANGED <<crewVars, testVars, tool, exception, scraperVars, genVars>>

\* a second call of _run with the same arguments but for features
GenCallAgain ==
    /\ tool = "SmartContractGenerator" /\ pc \in {"done", "raised"} /\ calls = 1
    /\ first' = [features |-> features, result |-> result, exception |-> exception]
    /\ features' \in FeatureLists \ {features}
    /\ calls' = 2
    /\ pc' = "start"
    /\ result' = None
    /\ exception' = None
    /\ contract_parts' = <<>>
    /\ UNCHANGED <<crewVars, testVars, tool, scraperVars, genArgs>>

NextGen ==
    \/ GenStart
    \/ GenDataVars
    \/ GenMaps
    \/ GenFunctions
    \/ GenErrorCodes
    \/ GenReturn
    \/ GenCallAgain

SpecGen == InitGen /\ [][NextGen]_vars

(***************************************************************************)
(* Properties of SmartContractGenerator._run                               *)
(***************************************************************************)
Gen == tool = "SmartContractGenerator"
Range(seq) == {seq[i] : i \in 1..Len(seq)}
Suffix(seq, n) == SubSeq(seq, Len(seq) - n + 1, Len(seq))
Falsy(v) == v = None \/ v = List(<<>>)
Entries(v) == IF IsList(v) THEN v.list ELSE <<>>
HasKeys(e, keys) == IsDict(e) /\ keys \subseteq DOMAIN e.dict
\* the descriptors of a list that hold the required keys, in list order
WellFormed(v, keys) == SelectSeq(Entries(v), LAMBDA e : HasKeys(e, keys))
\* the positions of the lines that are a lone closing parenthesis
Closers(ls) == SelectSeq([i \in 1..Len(ls) |-> i], LAMBDA i : ls[i] = ")")
IsDefinitionOf(line, name) ==
    StartsWith(line, "(define-") /\ Contains(line, " (" \o name \o " ")
\* a function descriptor one of whose parameters/args entries is no dict
\* holding 'name' and 'type'
ParamsOf(f) ==
    IF "parameters" \in DOMAIN f.dict THEN f.dict["parameters"]
    ELSE IF "args" \in DOMAIN f.dict THEN f.dict["args"] ELSE <<>>
HasBadParams(v) ==
    \E f \in Range(WellFormed(v, {"name"})) :
        \E q \in Range(ParamsOf(f)) : ~HasKeys(q, {"name", "type"})

\* C1: called with contract_name "vault" and the one function descriptor
\* {name: deposit, is_read_only: false, body: (ok true)}, the text returned
\* holds the line `(define-public (deposit )`, then the line `    (ok true)`,
\* then the line `)`.
C1_VaultDeposit ==
    (Gen /\ pc = "done" /\ contract_name = "vault"
         /\ functions = List(<<deposit>>)) =>
        LET ls == Lines(result.str) IN
        \E i \in 1..(Len(ls) - 2) :
            /\ ls[i] = "(define-public (deposit )"
            /\ ls[i + 1] = "    (ok true)"
            /\ ls[i + 2] = ")"

\* the blocks of the output are those of the descriptors holding 'name', one
\* each and in list order
OneBlockPerFunction(text, fs) ==
    LET ls == Lines(text)
        cl == Closers(ls)
        wf == WellFormed(fs, {"name"})
    IN /\ Len(cl) = Len(wf)
       /\ \A k \in 1..Len(cl) :
            /\ cl[k] >= 3
            /\ IsDefinitionOf(ls[cl[k] - 2], wf[k].dict["name"])
            /\ ls[cl[k] - 1] = "    " \o Get(wf[k].dict, "body", "(ok true)")

\* C2: for every list of function descriptors the call returns a text that
\* holds exactly one block (definition line, body line, closing line) for each
\* descriptor that is a dict holding 'name', in the order of the list, and no
\* block for the other descriptors.
C2_OneBlockPerDescriptor ==
    (Gen /\ pc \in {"done", "raised"}) =>
        /\ pc = "done"
        /\ OneBlockPerFunction(result.str, functions)

\* C3: a data-variable descriptor without 'name' or 'type', a map descriptor
\* without 'name', an error descriptor without 'name' or 'code', or an entry
\* that is no dict, adds no line, raises nothing, and leaves the lines of the
\* other descriptors of its list as they are without it.
C3_MalformedSkipped ==
    Gen =>
        /\ (exception # None \/ pc = "raised") => HasBadParams(functions)
        /\ (pc = "maps" /\ Truthy(data_vars)) =>
             LET wf == WellFormed(data_vars, {"name", "type"}) IN
             /\ contract_parts = InitialParts(contract_name, features)
                    \o <<";; Data vars">> \o DataVarLines(wf) \o <<"">>
             /\ Len(contract_parts) = 3 + Len(wf) + 2
             /\ \A k \in 1..Len(wf) :
                  Contains(contract_parts[4 + k], " " \o wf[k].dict["name"] \o " ")
        /\ (pc = "functions" /\ Truthy(maps)) =>
             LET wf == WellFormed(maps, {"name"}) IN
             /\ Suffix(contract_parts, Len(wf) + 2)
                    = <<";; Maps">> \o MapLines(wf) \o <<"">>
             /\ \A k \in 1..Len(wf) :
                  Contains(Suffix(contract_parts, Len(wf) + 1)[k],
                           " " \o wf[k].dict["name"] \o " ")
        /\ (pc = "return" /\ Truthy(error_codes)) =>
             LET wf == WellFormed(error_codes, {"name", "code"})
                 n == Len(ErrorLines(wf))
             IN
             /\ Suffix(contract_parts, n + 2)
                    = <<";; Error codes">> \o ErrorLines(wf) \o <<"">>
             /\ Cardinality({i \in 1..Len(contract_parts) :
                    StartsWith(contract_parts[i], "(define-constant")})
                  = Len(wf)

C3_Witness ==
    /\ Gen /\ pc = "done"
    /\ Len(Entries(data_vars)) = 2
    /\ Len(WellFormed(data_vars, {"name", "type"})) = 1
    /\ ~HasKeys(data_vars.list[1], {"name", "type"})
    /\ Len(Entries(error_codes)) = 1
    /\ WellFormed(error_codes, {"name", "code"}) = <<>>

\* C4: the generators raise nothing whatever the records are: a malformed
\* record (a function descriptor with parameters/args entries lacking 'name'
\* or 'type' included) is dropped and the call returns a text.
C4_NeverRaises ==
    (tool \in {"SmartContractGenerator", "TestGenerator"}) =>
        /\ exception = None
        /\ pc # "raised"
        /\ pc = "done" => IsStr(result)

\* C6: the header of a section whose list is empty or None is not in the
\* output; with the four lists empty the output is the three fixed lines.
C6_EmptySectionOmitted ==
    (Gen /\ pc = "done") =>
        LET ls == Lines(result.str) IN
        /\ Falsy(data_vars) => ";; Data vars" \notin Range(ls)
        /\ Falsy(maps) => ";; Maps" \notin Range(ls)
        /\ Falsy(functions) => ";; Functions" \notin Range(ls)
        /\ Falsy(error_codes) => ";; Error codes" \notin Range(ls)
        /\ (Falsy(data_vars) /\ Falsy(maps) /\ Falsy(functions)
              /\ Falsy(error_codes)) =>
             /\ ls = << ";; " \o contract_name,
                        ";; Generated smart contract based on Clarity documentation patterns",
                        "" >>
             /\ contract_name = "vault" => result.str =
                  ";; vault\n;; Generated smart contract based on Clarity documentation patterns\n"

C6_Witness ==
    /\ Gen /\ pc = "done"
    /\ data_vars = List(<<>>)
    /\ maps = None
    /\ Len(Entries(functions)) = 2
    /\ error_codes = List(<<>>)
    /\ ";; Functions" \in Range(Lines(result.str))

docs_urls ==
    << "https://docs.hiro.so/stacks/clarinet-js-sdk/guides/unit-testing",
       "https://docs.hiro.so/stacks/clarinet-js-sdk/guides/integration-testing",
       "https://docs.hiro.so/stacks/clarinet-js-sdk/guides/migrate-to-the-clarinet-sdk" >>

\* lines 178-183
EmptyPatterns ==
    [imports |-> <<>>, test_setup |-> <<>>, assertions |-> <<>>, examples |-> <<>>]

\* lines 196-204: the bucket one code block goes to
Categorize(p, code) ==
    LET low == Lower(code) IN
    IF Contains(low, "import") THEN [p EXCEPT !.imports = Append(@, code)]
    ELSE IF ContainsAny(low, {"beforeeach", "beforeall", "aftereach", "afterall"})
    THEN [p EXCEPT !.test_setup = Append(@, code)]
    ELSE IF ContainsAny(low, {"assert", "expect", "tobe", "equal"})
    THEN [p EXCEPT !.assertions = Append(@, code)]
    ELSE IF ContainsAny(low, {"describe", "it(", "test(", "should"})
    THEN [p EXCEPT !.examples = Append(@, code)]
    ELSE p
\* lines 193-204
RECURSIVE CategorizeAll(_, _)
CategorizeAll(p, blocks) ==
    IF blocks = <<>> THEN p
    ELSE CategorizeAll(Categorize(p, Head(blocks)), Tail(blocks))

\* lines 210-221
GenerateTestDescription(func) ==
    LET desc == Get(func, "description", "")
        name == Replace(Get(func, "name", ""), "-", " ")
        expected == Get(func, "expected_behavior", "")
    IN IF desc # "" THEN "should " \o Lower(desc)
       ELSE IF expected # "" THEN "should " \o Lower(expected)
       ELSE "should execute " \o name \o " successfully"

\* lines 230-238; BaseAssertionUnfiltered takes the first scraped assertion
\* without the filter of lines 230-232
CannedAssertion == "expect(receipt.result).toBe(types.ok(true));"
BaseAssertionUnfiltered(func, p) ==
    IF p.assertions # <<>> THEN p.assertions[1] ELSE CannedAssertion
BaseAssertion(func, p) ==
    LET assertion_patterns ==
            SelectSeq(p.assertions, LAMBDA q :
                ContainsAny(Lower(q), {"expect", "assert",
                                       Lower(Get(func, "name", ""))}))
    IN IF assertion_patterns # <<>> THEN assertion_patterns[1]
       ELSE CannedAssertion

\* lines 244-252
BehaviorAssertions(func) ==
    LET expected_behavior == Get(func, "expected_behavior", "") IN
    IF expected_behavior = "" THEN <<>>
    ELSE (IF Contains(Lower(expected_behavior), "error")
          THEN <<"      expect(receipt.result).toHaveProperty('error');">>
          ELSE <<>>)
      \o (IF Contains(Lower(expected_behavior), "return")
          THEN <<"      expect(receipt.result).not.toBeNull();">>
          ELSE <<>>)
      \o (IF Contains(Lower(expected_behavior), "state")
          THEN << "      // Verify state changes",
                  "      const state = chain.getAssetsMaps();",
                  "      expect(state).toBeDefined();" >>
          ELSE <<>>)

\* lines 223-254
GenerateTestAssertions(func, p) ==
    <<"      " \o BaseAssertion(func, p)>> \o BehaviorAssertions(func)

\* lines 267-269
DefaultImport ==
    "import { Chain, Clarinet, Tx, types } from '@stacks/blockchain-api-client';\n"
        \o "import { describe, expect, it, beforeEach } from 'vitest';"
LatestImport(p) ==
    LET m == SelectSeq(p.imports,
                       LAMBDA imp : Contains(imp, "@stacks/blockchain-api-client"))
    IN IF m # <<>> THEN m[1] ELSE DefaultImport

\* lines 271-286
TestHeaderParts(p, name, description) ==
    << LatestImport(p),
       "",
       "describe('" \o name \o "', () => {",
       "  // " \o description,
       "  let chain: Chain;",
       "  let accounts: Map<string, Account>;",
       "",
       "  beforeEach(() => {",
       "    chain = new Chain();",
       "    accounts = new Map();",
       "    accounts.set('deployer', new Account('ST1PQHQKV0RJXZFY1DGX8MNSNYVE3VGZJSRTPGZGM'));",
       "    accounts.set('wallet_1', new Account('ST1SJ3DTE5DN7X54YDH5D64R3BCB6A2AG2ZQ8YPD5'));",
       "  });",
       "" >>

\* ', '.join(func.get('args', [])) of line 304: an item that is no str raises
\* TypeError
TestArgsJoin(func) ==
    LET args == Get(func, "args", <<>>) IN
    IF \E k \in 1..Len(args) : ~IsStr(args[k])
    THEN [exc |-> Str("TypeError"), str |-> ""]
    ELSE [exc |-> None,
          str |-> Join(", ", [k \in 1..Len(args) |-> args[k].str])]

\* lines 296-309
TestBlockHead(func, name, test_description, args_str) ==
    << "  describe('" \o func["name"] \o "', () => {",
       "    it('" \o test_description \o "', () => {",
       "      const deployer = accounts.get('deployer')!;",
       "      const receipt = chain.mineBlock([",
       "        Tx.contractCall(",
       "          '" \o name \o "',",
       "          '" \o func["name"] \o "',",
       "          [" \o args_str \o "],",
       "          deployer.address",
       "        )",
       "      ]).receipts[0];",
       "" >>
\* lines 312-316 and 347-351
BlockTail == << "    });", "  });", "" >>

\* lines 321-351: the parts of one scenario
ScenarioOK(scenario) == IsDict(scenario) /\ "description" \in DOMAIN scenario.dict
ScenarioBlock(scenario, p, name) ==
    LET keys == Words(Lower(scenario["description"]))
        found == SelectSeq(p.examples, LAMBDA q :
                     \E k \in 1..Len(keys) : Contains(Lower(q), keys[k]))
    IN << "  describe('Scenario: " \o scenario["description"] \o "', () => {",
          "    it('should handle the scenario correctly', () => {" >>
       \o (IF found # <<>>
           THEN <<"      " \o Replace(Replace(found[1], "contract-name", name),
                                      "function-name",
                                      Get(scenario, "function", "test-function"))>>
           ELSE <<Get(scenario, "test_code", "      // Add test implementation")>>)
       \o BlockTail
\* the loop of lines 320-351
RECURSIVE ScenarioParts(_, _, _)
ScenarioParts(scs, p, name) ==
    IF scs = <<>> THEN <<>>
    ELSE (IF ScenarioOK(Head(scs)) THEN ScenarioBlock(Head(scs).dict, p, name)
          ELSE <<>>)
         \o ScenarioParts(Tail(scs), p, name)
\* lines 319-351
ScenarioSection(scenarios, p, name) ==
    IF Truthy(scenarios) THEN ScenarioParts(scenarios.list, p, name) ELSE <<>>

\* ---- bounds and inputs of the test generator
MaxDocsOK == 2
MaxTestItems == 2
DocPages == {
    << "import { Cl } from '@stacks/transactions';",
       "expect(result).toBeOk(Cl.bool(true));",
       "it('should deposit', () => { simnet.callPublicFn('contract-name', 'function-name', [], wallet); });" >>,
    << "import { Clarinet, Tx } from '@stacks/blockchain-api-client';",
       "result.toEqual(Deposit)",
       "beforeEach(() => { simnet.mineEmptyBlock(); });",
       "npm install" >>,
    << "assertEquals(balance, 100);",
       "test('paused', () => {})" >> }
TestFunctionEntries == {
    Dict([name |-> "deposit", description |-> "Deposit STX",
          expected_behavior |-> "Returns ok and updates STATE",
          args |-> <<Str("types.uint(100)"), Str("types.principal(wallet)")>>]),
    Dict([name |-> "get-balance",
          expected_behavior |-> "returns an Error when unknown"]),
    Dict([name |-> "pause"]),
    Dict([name |-> "withdraw",
          args |-> <<Dict([name |-> "amount", type |-> "uint"]),
                     Dict([name |-> "to", type |-> "principal"])>>]),
    Dict([description |-> "a function without a name"]),
    Str("deposit") }
ScenarioEntries == {
    Dict([description |-> "Deposit then withdraw", function |-> "deposit"]),
    Dict([description |-> "locked vault",
          test_code |-> "      expect(true).toBe(true);"]),
    Dict([function |-> "deposit"]),
    Str("scenario") }

InitTest ==
    /\ tool = "TestGenerator"
    /\ pc = "start"
    /\ result = None
    /\ exception = None
    /\ contract_name = "vault"
    /\ contract_description = "A vault for STX"
    /\ \E a \in 0..MaxTestItems : \E b \in 0..(MaxTestItems - a) :
         /\ functions \in {List(l) : l \in [1..a -> TestFunctionEntries]}
         /\ test_scenarios \in OptList(ScenarioEntries, b)
    /\ network \in {"up", "down"}
    /\ patterns = None
    /\ test_parts = <<>>
    /\ func_i = 1
    /\ assertions = <<>>
    /\ topic = None /\ urls = <<>> /\ url_i = 1 /\ results = <<>>
    /\ requested = <<>> /\ responses = <<>>
    /\ features = <<>> /\ data_vars = None /\ maps = None /\ error_codes = None
    /\ contract_parts = <<>> /\ calls = 1 /\ first = None
    /\ CrewIdle

testFrame == <<crewVars, tool, topic, results, features, data_vars, maps, error_codes,
               contract_parts, calls, first, contract_name, functions, testArgs,
               network>>

\* line 264, lines 172-183
TestStart ==
    /\ tool = "TestGenerator" /\ pc = "start"
    /\ urls' = docs_urls
    /\ patterns' = EmptyPatterns
    /\ pc' = "fetch"
    /\ UNCHANGED <<testFrame, result, exception, url_i, requested, responses,
                   test_parts, func_i, assertions>>

\* line 187 raises: lines 205-206
TestGetRaises ==
    /\ tool = "TestGenerator" /\ pc = "fetch" /\ url_i <= Len(urls)
    /\ requested' = Append(requested, urls[url_i])
    /\ url_i' = url_i + 1
    /\ UNCHANGED <<testFrame, pc, result, exception, urls, responses, patterns,
                   test_parts, func_i, assertions>>

\* line 187 returns a status other than 200: line 188 is false
TestGetNon200 ==
    /\ tool = "TestGenerator" /\ pc = "fetch" /\ url_i <= Len(urls)
    /\ network = "up"
    /\ requested' = Append(requested, urls[url_i])
    /\ url_i' = url_i + 1
    /\ UNCHANGED <<testFrame, pc, result, exception, urls, responses, patterns,
                   test_parts, func_i, assertions>>

\* line 187 returns status 200: lines 189-204
TestGetOK ==
    /\ tool = "TestGenerator" /\ pc = "fetch" /\ url_i <= Len(urls)
    /\ network = "up"
    /\ Len(responses) < MaxDocsOK
    /\ \E page \in DocPages :
         /\ responses' = Append(responses, [url |-> urls[url_i], page |-> page])
         /\ patterns' = CategorizeAll(patterns, page)
    /\ requested' = Append(requested, urls[url_i])
    /\ url_i' = url_i + 1
    /\ UNCHANGED <<testFrame, pc, result, exception, urls, test_parts, func_i,
                   assertions>>

\* line 208, then lines 267-286
TestHeader ==
    /\ tool = "TestGenerator" /\ pc = "fetch" /\ url_i > Len(urls)
    /\ test_parts' = TestHeaderParts(patterns, contract_name, contract_description)
    /\ pc' = "functions"
    /\ UNCHANGED <<testFrame, result, exception, urls, url_i, requested,
                   responses, patterns, func_i, assertions>>

\* one iteration of the loop of lines 289-316
TestFunction ==
    /\ tool = "TestGenerator" /\ pc = "functions"
    /\ func_i <= Len(functions.list)
    /\ LET func == functions.list[func_i] IN
       IF ~FuncOK(func)
       THEN /\ func_i' = func_i + 1
            /\ UNCHANGED <<pc, exception, test_parts, assertions>>
       ELSE LET a == TestArgsJoin(func.dict) IN
            /\ assertions' = GenerateTestAssertions(func.dict, patterns)
            /\ IF a.exc # None
               THEN /\ exception' = a.exc
                    /\ pc' = "raised"
                    /\ UNCHANGED <<test_parts, func_i>>
               ELSE /\ test_parts' = test_parts
                        \o TestBlockHead(func.dict, contract_name,
                               GenerateTestDescription(func.dict), a.str)
                        \o assertions' \o BlockTail
                    /\ func_i' = func_i + 1
                    /\ UNCHANGED <<pc, exception>>
    /\ UNCHANGED <<testFrame, result, urls, url_i, requested, responses,
                   patterns>>

\* lines 319-355
TestScenarios ==
    /\ tool = "TestGenerator" /\ pc = "functions"
    /\ func_i > Len(functions.list)
    /\ test_parts' = test_parts
          \o ScenarioSection(test_scenarios, patterns, contract_name)
          \o <<"});">>
    /\ pc' = "return"
    /\ UNCHANGED <<testFrame, result, exception, urls, url_i, requested,
                   responses, patterns, func_i, assertions>>

\* line 357
TestReturn ==
    /\ tool = "TestGenerator" /\ pc = "return"
    /\ result' = Str(Join("\n", test_parts))
    /\ pc' = "done"
    /\ UNCHANGED <<testFrame, exception, urls, url_i, requested, responses,
                   patterns, test_parts, func_i, assertions>>

NextTest ==
    \/ TestStart
    \/ TestGetRaises
    \/ TestGetNon200
    \/ TestGetOK
    \/ TestHeader
    \/ TestFunction
    \/ TestScenarios
    \/ TestReturn

SpecTest == InitTest /\ [][NextTest]_vars

(***************************************************************************)
(* Properties of TestGenerator                                             *)
(***************************************************************************)
Test == tool = "TestGenerator"
\* the lines that open a nested describe block
DescribeLines(ls) == SelectSeq(ls, LAMBDA l : StartsWith(l, "  describe('"))
\* the nested describe lines the claim expects: the functions holding 'name',
\* then the scenarios holding 'description', each in list order
ExpectedDescribes(fs, scs) ==
    LET wf == WellFormed(fs, {"name"})
        ws == WellFormed(scs, {"description"})
    IN [k \in 1..Len(wf) |-> "  describe('" \o wf[k].dict["name"] \o "', () => {"]
       \o [k \in 1..Len(ws) |->
              "  describe('Scenario: " \o ws[k].dict["description"] \o "', () => {"]

\* C8: whatever was scraped, the text returned holds one nested describe block
\* per function descriptor holding 'name', in list order, then one
\* `Scenario:` describe block per scenario holding 'description', in list
\* order, and ends with the line `});`; the other entries are skipped.
C8_OneBlockPerFunctionAndScenario ==
    (Test /\ pc \in {"done", "raised"}) =>
        /\ pc = "done"
        /\ LET ls == Lines(result.str) IN
           /\ DescribeLines(ls) = ExpectedDescribes(functions, test_scenarios)
           /\ ls[Len(ls)] = "});"

\* the function descriptor _generate_test_assertions was last called with
LastTested ==
    LET fs == functions.list
        done == {k \in 1..Len(fs) :
                    /\ FuncOK(fs[k])
                    /\ k < func_i \/ (pc = "raised" /\ k = func_i)}
    IN IF done = {} THEN None
       ELSE fs[CHOOSE k \in done : \A j \in done : j <= k]

\* C10: _generate_test_assertions returns one base assertion line first (the
\* first scraped assertion snippet whose lower-cased text holds 'expect',
\* 'assert' or the lower-cased function name, else the canned one), then, in
\* this order, one line if expected_behavior holds 'error', one if it holds
\* 'return' and three if it holds 'state' (whatever the case), and no more.
C10_Assertions ==
    (Test /\ pc \in {"functions", "return", "done", "raised"}) =>
        IF LastTested = None THEN assertions = <<>>
        ELSE
        LET f == LastTested.dict
            snippets == patterns.assertions
            fit == {k \in 1..Len(snippets) :
                       \/ Contains(Lower(snippets[k]), "expect")
                       \/ Contains(Lower(snippets[k]), "assert")
                       \/ Contains(Lower(snippets[k]), Lower(f["name"]))}
            base == IF fit = {}
                    THEN "expect(receipt.result).toBe(types.ok(true));"
                    ELSE snippets[CHOOSE k \in fit : \A j \in fit : k <= j]
            behavior == Lower(Get(f, "expected_behavior", ""))
            e == IF Contains(behavior, "error") THEN 1 ELSE 0
            r == IF Contains(behavior, "return") THEN 1 ELSE 0
            st == IF Contains(behavior, "state") THEN 3 ELSE 0
        IN /\ Len(assertions) = 1 + e + r + st
           /\ assertions[1] = "      " \o base
           /\ e = 1 => assertions[2]
                  = "      expect(receipt.result).toHaveProperty('error');"
           /\ r = 1 => assertions[2 + e]
                  = "      expect(receipt.result).not.toBeNull();"
           /\ st = 3 => SubSeq(assertions, 2 + e + r, 4 + e + r)
                  = << "      // Verify state changes",
                       "      const state = chain.getAssetsMaps();",
                       "      expect(state).toBeDefined();" >>

\* get-balance is the function tested last; the first snippet scraped fits
\* deposit alone, the second holds 'expect'
C10_Witness ==
    /\ Test /\ pc = "done"
    /\ LastTested # None
    /\ LastTested.dict["name"] = "get-balance"
    /\ Len(patterns.assertions) = 2
    /\ patterns.assertions[1] = "result.toEqual(Deposit)"
    /\ assertions = << "      expect(result).toBeOk(Cl.bool(true));",
                       "      expect(receipt.result).toHaveProperty('error');",
                       "      expect(receipt.result).not.toBeNull();" >>


(***************************************************************************)
(* Noccstacksv2.before_kickoff_function (crew.py)                          *)
(***************************************************************************)
\* self.default_inputs.copy(), line 91: a new dict with the same items.
\* DictAlias is the assignment without .copy(): the same object.
DictAlias(d) == [dict |-> d, shared |-> TRUE]
DictCopy(d) == [dict |-> d, shared |-> FALSE]

\* d.update(other), line 93: the items of d after the call
DictUpdate(d, other) ==
    [k \in DOMAIN d \cup DOMAIN other |->
        IF k \in DOMAIN other THEN other[k] ELSE d[k]]

\* `if inputs:`, line 92: None and {} are false
InputsGiven(inputs) == IsDict(inputs) /\ DOMAIN inputs.dict # {}

\* lines 91-94: the dict returned, and whether it is the class's own dict
MergeInputs(defaults, inputs) ==
    LET merged == DictCopy(defaults) IN
    [dict |-> IF InputsGiven(inputs) THEN DictUpdate(merged.dict, inputs.dict)
              ELSE merged.dict,
     shared |-> merged.shared]

\* ---- bounds and inputs of the crew
MaxCrewCalls == 3
\* a dict holding, for each key, one of its values or nothing
NoValue == "<absent>"
CrewInputDicts ==
    LET choice == [project_name : {NoValue, "Vault", "Newsletter 2"},
                   project_description : {NoValue, "A vault for STX", ""},
                   network : {NoValue, "testnet"}]
    IN { [k \in {j \in DOMAIN c : c[j] # NoValue} |-> c[k]] : c \in choice }
CrewInputs == {None} \cup {Dict(d) : d \in CrewInputDicts}

InitCrew ==
    /\ tool = "Noccstacksv2"
    /\ pc = "ready"
    /\ result = None
    /\ exception = None
    /\ ScraperIdle
    /\ GenIdle
    /\ TestIdle
    /\ CrewIdle

\* lines 89-94, one call
BeforeKickoff ==
    /\ tool = "Noccstacksv2" /\ pc \in {"ready", "returned", "used"}
    /\ crew_calls < MaxCrewCalls
    /\ \E inputs \in CrewInputs :
         LET r == MergeInputs(default_inputs, inputs) IN
         /\ crew_inputs' = inputs
         /\ merged_inputs' = Dict(r.dict)
         /\ shared' = r.shared
         \* a write through one name of an object shows through its other names
         /\ default_inputs' = IF r.shared THEN r.dict ELSE default_inputs
    /\ crew_calls' = crew_calls + 1
    /\ pc' = "returned"
    /\ UNCHANGED <<tool, result, exception, scraperVars, genVars, testVars>>

\* the caller, which owns the dict it was returned, writes an item into it
CallerWritesInputs ==
    /\ tool = "Noccstacksv2" /\ pc = "returned"
    /\ \E k \in {"project_name", "crew_name"} :
         LET d == DictUpdate(merged_inputs.dict, [j \in {k} |-> "written by the caller"])
         IN /\ merged_inputs' = Dict(d)
            /\ default_inputs' = IF shared THEN d ELSE default_inputs
    /\ pc' = "used"
    /\ UNCHANGED <<tool, result, exception, scraperVars, genVars, testVars,
                   crew_inputs, shared, crew_calls>>

NextCrew ==
    \/ BeforeKickoff
    \/ CallerWritesInputs

SpecCrew == InitCrew /\ [][NextCrew]_vars

(***************************************************************************)
(* Properties of Noccstacksv2.before_kickoff_function                      *)
(***************************************************************************)
\* C11: the mapping returned holds every key of default_inputs and every key
\* of the inputs given, with the given value where there is one and the
\* default elsewhere; None or empty inputs give the defaults; and after any
\* sequence of calls the class's default_inputs is what the class defines, so
\* no call's inputs show in a later call's result.
C11_MergeKeepsDefaults ==
    (tool = "Noccstacksv2") =>
        /\ default_inputs = ClassDefaultInputs
        /\ DOMAIN default_inputs = {"project_name", "project_description"}
        /\ default_inputs["project_name"] = "Newsletter"
        /\ pc = "returned" =>
             LET given == IF IsDict(crew_inputs) THEN crew_inputs.dict ELSE <<>>
                 m == merged_inputs.dict
             IN /\ DOMAIN m = {"project_name", "project_description"}
                                 \cup DOMAIN given
                /\ \A k \in DOMAIN given : m[k] = given[k]
                /\ \A k \in {"project_name", "project_description"} \ DOMAIN given :
                       m[k] = ClassDefaultInputs[k]
                /\ (crew_inputs = None \/ crew_inputs = Dict(<<>>)) =>
                       m = ClassDefaultInputs

\* a third call, given a name and a new key, after two calls of any inputs
C11_Witness ==
    /\ tool = "Noccstacksv2" /\ pc = "returned"
    /\ crew_calls = 3
    /\ crew_inputs = Dict([project_name |-> "Vault", network |-> "testnet"])
    /\ merged_inputs.dict["project_name"] = "Vault"
    /\ merged_inputs.dict["network"] = "testnet"
    /\ merged_inputs.dict["project_description"]
           = ClassDefaultInputs["project_description"]

(***************************************************************************)
(* The three tools and the crew                                            *)
(***************************************************************************)
Init == InitScraper \/ InitGen \/ InitTest \/ InitCrew
Next == NextScraper \/ NextGen \/ NextTest \/ NextCrew
Spec == Init /\ [][Next]_vars

====
